---- MODULE Spec2Model ----
(***************************************************************************)
(* Model of the Modbus TCP/IP client codec of uModbus                      *)
(* (umodbus/client/tcp.py) and of the system tests of successful          *)
(* responses (tests/system/responses/test_succesful_responses.py).         *)
(*                                                                         *)
(* Byte strings are sequences of integers 0..255.  struct.pack and         *)
(* struct.unpack are modelled by what they do: big-endian encoding with    *)
(* a range check that raises struct.error, and decoding that needs the     *)
(* exact number of bytes.                                                  *)
(*                                                                         *)
(* umodbus/_functions.py (the PDU classes and                              *)
(* create_function_from_response_pdu) and tests/system/validators.py are   *)
(* modelled from the specification's sections 3, 4.2, 4.3 and 4.5.         *)
(***************************************************************************)
EXTENDS Integers, Sequences, FiniteSets, TLC

VARIABLES cur, exch

vars == <<cur, exch>>

(***************************************************************************)
(* Bounds of the model.                                                    *)
(***************************************************************************)
MaxQuantity == 10

MaxValues == 2

(***************************************************************************)
(* Program constants.                                                      *)
(***************************************************************************)
\* randint(0, 65536): both ends are included by random.randint.
RandintLow == 0

RandintHigh == 65536

\* resp_adu[7:], and the 7 bytes '>HHHB' packs.
MbapLength == 7

(***************************************************************************)
(* Results.  Every result is a record of one shape.                        *)
(***************************************************************************)
Result(kind, err, bytes, values, code, exc) ==
    [kind |-> kind, err |-> err, bytes |-> bytes, values |-> values,
     original_code |-> code, exception_code |-> exc]

Bytes(bs) == Result("bytes", "", bs, <<>>, 0, <<>>)

Error(e) == Result("error", e, <<>>, <<>>, 0, <<>>)

Values(vs) == Result("values", "", <<>>, vs, 0, <<>>)

ExceptionResponse(code, exc) == Result("ExceptionResponse", "", <<>>, <<>>, code, exc)

NoResult == Result("none", "", <<>>, <<>>, 0, <<>>)

(***************************************************************************)
(* struct.pack / struct.unpack, big-endian.                                *)
(***************************************************************************)
IsU8(x) == x \in 0..255

IsU16(x) == x \in 0..65535

PackB(x) == <<x>>

PackH(x) == <<x \div 256, x % 256>>

\* struct.unpack('>H', bs[i-1:i+1]) with i counted from 1.
UnpackH(bs, i) == bs[i] * 256 + bs[i + 1]

\* bs[i:] of Python, i counted from 0: empty when i >= len(bs).
SliceFrom(bs, i) == SubSeq(bs, i + 1, Len(bs))

\* bs[i:j] of Python, counted from 0, clipped to the string.
Slice(bs, i, j) == SubSeq(bs, i + 1, IF j < Len(bs) THEN j ELSE Len(bs))

CeilDiv8(n) == (n + 7) \div 8

Min(a, b) == IF a < b THEN a ELSE b

\* struct.pack('>BHH', a, b, c)
PackBHH(a, b, c) ==
    IF IsU8(a) /\ IsU16(b) /\ IsU16(c)
    THEN Bytes(PackB(a) \o PackH(b) \o PackH(c))
    ELSE Error("struct.error")

(***************************************************************************)
(* Bit and register packing of the PDU codec (section 4.3): bits are       *)
(* packed LSB-first within each byte, registers are big-endian u16.        *)
(***************************************************************************)
RECURSIVE ByteOfBits(_, _, _)
ByteOfBits(bits, j, i) ==
    IF i = 8 THEN 0
    ELSE (IF 8 * j + i + 1 <= Len(bits) THEN bits[8 * j + i + 1] * (2 ^ i) ELSE 0)
         + ByteOfBits(bits, j, i + 1)

PackBits(bits) == [j \in 1..CeilDiv8(Len(bits)) |-> ByteOfBits(bits, j - 1, 0)]

PackRegisters(regs) ==
    [k \in 1..(2 * Len(regs)) |->
        IF k % 2 = 1 THEN regs[(k + 1) \div 2] \div 256 ELSE regs[k \div 2] % 256]

UnpackBits(bs) == [i \in 1..(8 * Len(bs)) |-> (bs[((i - 1) \div 8) + 1] \div (2 ^ ((i - 1) % 8))) % 2]

UnpackRegisters(bs) == [k \in 1..(Len(bs) \div 2) |-> UnpackH(bs, 2 * k - 1)]

(***************************************************************************)
(* MBAP header and ADU (umodbus/client/tcp.py).                            *)
(***************************************************************************)
\* The header with the unit id left out of the length.
create_mbap_header_LengthOfPdu(slave_id, pdu, transaction_id) ==
    LET length == Len(pdu)
    IN  IF IsU16(transaction_id) /\ IsU16(0) /\ IsU16(length) /\ IsU8(slave_id)
        THEN Bytes(PackH(transaction_id) \o PackH(0) \o PackH(length) \o PackB(slave_id))
        ELSE Error("struct.error")

\* transaction_id is the value randint(0, 65536) returned in this call.
create_mbap_header(slave_id, pdu, transaction_id) ==
    LET length == Len(pdu) + 1
    IN  IF IsU16(transaction_id) /\ IsU16(0) /\ IsU16(length) /\ IsU8(slave_id)
        THEN Bytes(PackH(transaction_id) \o PackH(0) \o PackH(length) \o PackB(slave_id))
        ELSE Error("struct.error")

\* The header returned without the PDU.
create_request_adu_HeaderOnly(slave_id, pdu, transaction_id) ==
    create_mbap_header(slave_id, pdu, transaction_id)

create_request_adu(slave_id, pdu, transaction_id) ==
    LET mbap == create_mbap_header(slave_id, pdu, transaction_id)
    IN  IF mbap.kind = "bytes" THEN Bytes(mbap.bytes \o pdu) ELSE mbap

(***************************************************************************)
(* Request PDUs of umodbus/_functions.py, from sections 3 and 4.3: the     *)
(* parameter ranges are checked before any byte is built.                  *)
(***************************************************************************)
MaxBitQuantity == 2000

MaxRegisterQuantity == 125

CoilOn == 65280

ReadRequestPdu(code, starting_address, quantity) ==
    IF /\ IsU16(starting_address)
       /\ quantity \in 1..(IF code \in {1, 2} THEN MaxBitQuantity ELSE MaxRegisterQuantity)
    THEN PackBHH(code, starting_address, quantity)
    ELSE Error("InvalidParameter")

WriteSingleCoilPdu(address, value) ==
    IF IsU16(address) /\ value \in {0, 1}
    THEN PackBHH(5, address, IF value = 0 THEN 0 ELSE CoilOn)
    ELSE Error("InvalidParameter")

WriteSingleRegisterPdu(address, value) ==
    IF IsU16(address) /\ IsU16(value)
    THEN PackBHH(6, address, value)
    ELSE Error("InvalidParameter")

WriteMultipleCoilsPdu(starting_address, values) ==
    IF /\ IsU16(starting_address)
       /\ Len(values) \in 1..MaxBitQuantity
       /\ \A i \in 1..Len(values) : values[i] \in {0, 1}
    THEN Bytes(PackB(15) \o PackH(starting_address) \o PackH(Len(values))
               \o PackB(CeilDiv8(Len(values))) \o PackBits(values))
    ELSE Error("InvalidParameter")

WriteMultipleRegistersPdu(starting_address, values) ==
    IF /\ IsU16(starting_address)
       /\ Len(values) \in 1..MaxRegisterQuantity
       /\ \A i \in 1..Len(values) : IsU16(values[i])
    THEN Bytes(PackB(16) \o PackH(starting_address) \o PackH(Len(values))
               \o PackB(2 * Len(values)) \o PackRegisters(values))
    ELSE Error("InvalidParameter")

(***************************************************************************)
(* The request builders of umodbus/client/tcp.py.  The PDU is built        *)
(* first; the transaction id is drawn only when that succeeded.            *)
(***************************************************************************)
BuildAdu(slave_id, request_pdu, transaction_id) ==
    IF request_pdu.kind = "bytes"
    THEN create_request_adu(slave_id, request_pdu.bytes, transaction_id)
    ELSE request_pdu

read_coils(slave_id, starting_address, quantity, transaction_id) ==
    BuildAdu(slave_id, ReadRequestPdu(1, starting_address, quantity), transaction_id)

read_discrete_inputs(slave_id, starting_address, quantity, transaction_id) ==
    BuildAdu(slave_id, ReadRequestPdu(2, starting_address, quantity), transaction_id)

read_holding_registers(slave_id, starting_address, quantity, transaction_id) ==
    BuildAdu(slave_id, ReadRequestPdu(3, starting_address, quantity), transaction_id)

read_input_registers(slave_id, starting_address, quantity, transaction_id) ==
    BuildAdu(slave_id, ReadRequestPdu(4, starting_address, quantity), transaction_id)

write_single_coil(slave_id, address, value, transaction_id) ==
    BuildAdu(slave_id, WriteSingleCoilPdu(address, value), transaction_id)

write_single_register(slave_id, address, value, transaction_id) ==
    BuildAdu(slave_id, WriteSingleRegisterPdu(address, value), transaction_id)

write_multiple_coils(slave_id, starting_address, values, transaction_id) ==
    BuildAdu(slave_id, WriteMultipleCoilsPdu(starting_address, values), transaction_id)

write_multiple_registers(slave_id, starting_address, values, transaction_id) ==
    BuildAdu(slave_id, WriteMultipleRegistersPdu(starting_address, values), transaction_id)

(***************************************************************************)
(* The response decoder of umodbus/_functions.py, from sections 4.2, 4.3   *)
(* and the PDU rules 3 to 6 of section 4.5.  It is given the response PDU  *)
(* and the request ADU; it never sees the response's header.               *)
(***************************************************************************)
DecodeBits(resp_pdu, quantity) ==
    IF Len(resp_pdu) < 2 \/ Len(resp_pdu) # 2 + resp_pdu[2]
    THEN Error("MalformedResponse")
    ELSE IF resp_pdu[2] # CeilDiv8(quantity) THEN Error("ByteCountMismatch")
    ELSE LET bits == UnpackBits(SliceFrom(resp_pdu, 2))
         IN  Values(SubSeq(bits, 1, Min(quantity, Len(bits))))

DecodeRegisters(resp_pdu, quantity) ==
    IF Len(resp_pdu) < 2 \/ resp_pdu[2] % 2 # 0 \/ Len(resp_pdu) # 2 + resp_pdu[2]
    THEN Error("MalformedResponse")
    ELSE IF resp_pdu[2] # 2 * quantity THEN Error("ByteCountMismatch")
    ELSE Values(UnpackRegisters(SliceFrom(resp_pdu, 2)))

create_function_from_response_pdu(resp_pdu, req_adu) ==
    LET req_pdu == SliceFrom(req_adu, MbapLength)
        code == req_pdu[1]
    IN  IF resp_pdu = <<>> THEN Error("MalformedResponse")
        ELSE IF resp_pdu[1] >= 128
        THEN ExceptionResponse(resp_pdu[1] - 128, Slice(resp_pdu, 1, 2))
        ELSE IF resp_pdu[1] # code THEN Error("HeaderMismatch")
        ELSE IF code \in {1, 2} THEN DecodeBits(resp_pdu, UnpackH(req_pdu, 4))
        ELSE IF code \in {3, 4} THEN DecodeRegisters(resp_pdu, UnpackH(req_pdu, 4))
        ELSE IF code \in {5, 6}
        THEN (IF resp_pdu = req_pdu
              THEN Values(<<UnpackH(resp_pdu, 2), UnpackH(resp_pdu, 4)>>)
              ELSE Error("ValidationFailure"))
        ELSE IF Len(resp_pdu) = 5 /\ resp_pdu = Slice(req_pdu, 0, 5)
        THEN Values(<<UnpackH(resp_pdu, 2), UnpackH(resp_pdu, 4)>>)
        ELSE Error("ValidationFailure")

(***************************************************************************)
(* parse_response_adu of umodbus/client/tcp.py.                            *)
(***************************************************************************)
\* The PDU taken from the unit id on.
SplitPdu_FromUnitId(resp_adu) == SliceFrom(resp_adu, MbapLength - 1)

\* resp_pdu = resp_adu[7:]
SplitPdu(resp_adu) == SliceFrom(resp_adu, MbapLength)

\* function = create_function_from_response_pdu(resp_pdu, *args, **kwargs)
\* return function.data
parse_response_adu(resp_adu, req_adu) ==
    create_function_from_response_pdu(SplitPdu(resp_adu), req_adu)

(***************************************************************************)
(* Inputs.                                                                 *)
(***************************************************************************)
SlaveIds == {0, 1, 255}

Addresses == {0, 258}

Quantities == {0, 1, MaxQuantity}

\* Values randint(RandintLow, RandintHigh) can return: both ends, the value
\* next to the upper end, and one whose two bytes differ.
TransactionIds == {RandintLow, 258, RandintHigh - 1, RandintHigh}

CoilValues == {0, 1}

RegisterValues == {0, 1337}

CoilLists ==
    UNION {{[i \in 1..n |-> 1], [i \in 1..n |-> i % 2]} : n \in 1..MaxValues}

RegisterLists ==
    UNION {{[i \in 1..n |-> IF i = 1 THEN 1337 ELSE 15], [i \in 1..n |-> i - 1]} : n \in 1..MaxValues}

RawPdus == {<<>>, <<255>>, <<1, 0, 0, 0, 10>>}

(***************************************************************************)
(* Replies of the remote unit.  The unit is not part of the codec: a       *)
(* reply is any of the conforming reply and byte strings near it.  The     *)
(* conforming reply follows section 3; the data are those the system       *)
(* tests expect (coil i holds i % 2, register i holds i).                  *)
(***************************************************************************)
\* (170, 2) for the ten coils from 0: the bytes of the coils a .. a+q-1.
ExpectedSingleBitValues(a, q) == PackBits([i \in 1..q |-> (a + i - 1) % 2])

\* (0, 1, ..., 9) for the ten registers from 0.
ExpectedMultiBitValues(a, q) == [i \in 1..q |-> a + i - 1]

WithMbapOf(req_adu, pdu) ==
    Slice(req_adu, 0, 4) \o PackH(Len(pdu) + 1) \o Slice(req_adu, 6, 7) \o pdu

ConformingReplyPdu(req_pdu) ==
    LET code == req_pdu[1]
        a == UnpackH(req_pdu, 2)
        q == UnpackH(req_pdu, 4)
    IN  IF code \in {1, 2}
        THEN <<code, CeilDiv8(q)>> \o ExpectedSingleBitValues(a, q)
        ELSE IF code \in {3, 4}
        THEN <<code, 2 * q>> \o PackRegisters(ExpectedMultiBitValues(a, q))
        ELSE IF code \in {5, 6} THEN req_pdu
        ELSE Slice(req_pdu, 0, 5)

ConformingReply(req_adu) ==
    WithMbapOf(req_adu, ConformingReplyPdu(SliceFrom(req_adu, MbapLength)))

SetByte(bs, i, v) == [bs EXCEPT ![i] = v]

Bump(bs, i) == SetByte(bs, i, (bs[i] + 1) % 256)

Replies(req_adu) ==
    LET good == ConformingReply(req_adu)
        pdu == SliceFrom(good, MbapLength)
        req_pdu == SliceFrom(req_adu, MbapLength)
        code == req_pdu[1]
    IN  {good}
        \* one byte of the reply changed
        \cup {Bump(good, i) : i \in 1..Len(good)}
        \* the function code of another request
        \cup {SetByte(good, 8, IF code = 1 THEN 2 ELSE 1)}
        \* the unit id and one more byte changed
        \cup {Bump(Bump(good, 7), 9)}
        \* exception responses, whole and cut short
        \cup {WithMbapOf(req_adu, <<code + 128, e>>) : e \in {1, 2}}
        \cup {WithMbapOf(req_adu, <<code + 128>>)}
        \cup {WithMbapOf(req_adu, <<((code + 1) % 128) + 128, 4>>)}
        \* a byte more, a byte less
        \cup {WithMbapOf(req_adu, pdu \o <<0>>)}
        \cup {WithMbapOf(req_adu, Bump(pdu, 2) \o <<0>>)}
        \cup {WithMbapOf(req_adu, Slice(pdu, 0, Len(pdu) - 1))}
        \cup {WithMbapOf(req_adu, Slice(Bump(pdu, 2), 0, Len(pdu) - 1))}
        \* the request echoed whole
        \cup {WithMbapOf(req_adu, req_pdu)}
        \* the header alone, and less than a header
        \cup {Slice(good, 0, n) : n \in {0, 3, 6, 7}}

(***************************************************************************)
(* State.  cur is the last call of the client's functions: its name, its   *)
(* arguments, the transaction id randint returned (if it was called), the  *)
(* PDU handed to create_function_from_response_pdu (if it was called) and  *)
(* the result.  exch is the run of one system test.                        *)
(***************************************************************************)
NoCall == [op |-> "none", args |-> <<>>, txid |-> <<>>, decoder_input |-> <<>>,
           result |-> NoResult]

Builders == {"create_request_adu", "read_coils", "read_discrete_inputs",
             "read_holding_registers", "read_input_registers", "write_single_coil",
             "write_single_register", "write_multiple_coils", "write_multiple_registers"}

\* randint is reached unless the PDU could not be built.
Built(op, args, t, res) ==
    [op |-> op, args |-> args,
     txid |-> IF res.err = "InvalidParameter" THEN <<>> ELSE <<t>>,
     decoder_input |-> <<>>, result |-> res]

CallCreateRequestAdu ==
    /\ \E s \in SlaveIds, pdu \in RawPdus, t \in TransactionIds :
          cur' = Built("create_request_adu", <<s, pdu>>, t, create_request_adu(s, pdu, t))
    /\ UNCHANGED exch

CallReadCoils ==
    /\ \E s \in SlaveIds, a \in Addresses, q \in Quantities, t \in TransactionIds :
          cur' = Built("read_coils", <<s, a, q>>, t, read_coils(s, a, q, t))
    /\ UNCHANGED exch

CallReadDiscreteInputs ==
    /\ \E s \in SlaveIds, a \in Addresses, q \in Quantities, t \in TransactionIds :
          cur' = Built("read_discrete_inputs", <<s, a, q>>, t, read_discrete_inputs(s, a, q, t))
    /\ UNCHANGED exch

CallReadHoldingRegisters ==
    /\ \E s \in SlaveIds, a \in Addresses, q \in Quantities, t \in TransactionIds :
          cur' = Built("read_holding_registers", <<s, a, q>>, t, read_holding_registers(s, a, q, t))
    /\ UNCHANGED exch

CallReadInputRegisters ==
    /\ \E s \in SlaveIds, a \in Addresses, q \in Quantities, t \in TransactionIds :
          cur' = Built("read_input_registers", <<s, a, q>>, t, read_input_registers(s, a, q, t))
    /\ UNCHANGED exch

CallWriteSingleCoil ==
    /\ \E s \in SlaveIds, a \in Addresses, v \in CoilValues, t \in TransactionIds :
          cur' = Built("write_single_coil", <<s, a, v>>, t, write_single_coil(s, a, v, t))
    /\ UNCHANGED exch

CallWriteSingleRegister ==
    /\ \E s \in SlaveIds, a \in Addresses, v \in RegisterValues, t \in TransactionIds :
          cur' = Built("write_single_register", <<s, a, v>>, t, write_single_register(s, a, v, t))
    /\ UNCHANGED exch

CallWriteMultipleCoils ==
    /\ \E s \in SlaveIds, a \in Addresses, vs \in CoilLists, t \in TransactionIds :
          cur' = Built("write_multiple_coils", <<s, a, vs>>, t, write_multiple_coils(s, a, vs, t))
    /\ UNCHANGED exch

CallWriteMultipleRegisters ==
    /\ \E s \in SlaveIds, a \in Addresses, vs \in RegisterLists, t \in TransactionIds :
          cur' = Built("write_multiple_registers", <<s, a, vs>>, t, write_multiple_registers(s, a, vs, t))
    /\ UNCHANGED exch

\* The requests whose replies are parsed: one of each builder.
ParseRequests ==
    {read_coils(1, 0, MaxQuantity, 258).bytes,
     read_discrete_inputs(255, 258, 1, 258).bytes,
     read_holding_registers(1, 0, MaxQuantity, 258).bytes,
     read_input_registers(255, 258, 1, 258).bytes,
     write_single_coil(1, 258, 1, 258).bytes,
     write_single_register(1, 258, 1337, 258).bytes,
     write_multiple_coils(1, 0, <<1, 1>>, 258).bytes,
     write_multiple_registers(1, 0, <<1337, 15>>, 258).bytes}

CallParseResponseAdu ==
    /\ \E req_adu \in ParseRequests :
          \E resp_adu \in Replies(req_adu) :
              cur' = [op |-> "parse_response_adu", args |-> <<resp_adu, req_adu>>,
                      txid |-> <<>>, decoder_input |-> <<SplitPdu(resp_adu)>>,
                      result |-> parse_response_adu(resp_adu, req_adu)]
    /\ UNCHANGED exch

(***************************************************************************)
(* The validators of tests/system/validators.py, from section 4.5.  Each   *)
(* returns "ok" or the kind of the failure it raises.                      *)
(***************************************************************************)
validate_response_mbap(req_mbap, resp) ==
    IF Len(resp) < MbapLength THEN "MalformedHeader"
    ELSE IF UnpackH(resp, 5) # Len(resp) - 6 THEN "MalformedHeader"
    ELSE IF resp[7] # req_mbap[7] THEN "HeaderMismatch"
    ELSE IF Slice(resp, 0, 4) # Slice(req_mbap, 0, 4) THEN "HeaderMismatch"
    ELSE "ok"

validate_function_code(adu, resp) ==
    IF Len(resp) < 8 THEN "MalformedResponse"
    ELSE IF resp[8] = adu[8] THEN "ok"
    ELSE IF resp[8] = adu[8] + 128 THEN "ExceptionResponse"
    ELSE "HeaderMismatch"

validate_single_bit_value_byte_count(adu, resp) ==
    IF Len(resp) < 9 THEN "MalformedResponse"
    ELSE IF resp[9] = CeilDiv8(UnpackH(adu, 11)) THEN "ok"
    ELSE "ByteCountMismatch"

validate_multi_bit_value_byte_count(adu, resp) ==
    IF Len(resp) < 9 THEN "MalformedResponse"
    ELSE IF resp[9] = 2 * UnpackH(adu, 11) THEN "ok"
    ELSE "ByteCountMismatch"

(***************************************************************************)
(* tests/system/responses/test_succesful_responses.py.                     *)
(***************************************************************************)
\* The first byte_count bytes taken, the rest ignored.
unpack_single_bit_values_Lenient(response) ==
    IF Len(Slice(response, 8, 9)) # 1 THEN Error("struct.error")
    ELSE LET byte_count == response[9]
         IN  IF Len(SliceFrom(response, 9)) < byte_count THEN Error("struct.error")
             ELSE Values(Slice(response, 9, 9 + byte_count))

\* byte_count = struct.unpack('>B', response[8:9])[0]
\* struct.unpack('>' + 'B' * byte_count, response[9:])
unpack_single_bit_values(response) ==
    IF Len(Slice(response, 8, 9)) # 1 THEN Error("struct.error")
    ELSE LET byte_count == response[9]
         IN  IF Len(SliceFrom(response, 9)) # byte_count THEN Error("struct.error")
             ELSE Values(SliceFrom(response, 9))

\* struct.unpack('>' + 'H' * (byte_count // 2), response[9:])
unpack_multi_bit_values(response) ==
    IF Len(Slice(response, 8, 9)) # 1 THEN Error("struct.error")
    ELSE LET byte_count == response[9]
         IN  IF Len(SliceFrom(response, 9)) # 2 * (byte_count \div 2)
             THEN Error("struct.error")
             ELSE Values(UnpackRegisters(SliceFrom(response, 9)))

\* struct.unpack('>H', bs)[0]
UnpackOneH(bs) ==
    IF Len(bs) # 2 THEN Error("struct.error") ELSE Values(<<UnpackH(bs, 1)>>)

Run(test, adu, resp, outcome, values) ==
    [test |-> test, req |-> adu, resp |-> resp, outcome |-> outcome, values |-> values]

\* The test passes ("passed") or stops at the first check that raises.
test_response_on_single_bit_value_read_requests(adu, resp, expected) ==
    LET mbap == Slice(adu, 0, MbapLength)
        v1 == validate_response_mbap(mbap, resp)
        v2 == validate_function_code(adu, resp)
        v3 == validate_single_bit_value_byte_count(adu, resp)
        u == unpack_single_bit_values(resp)
        name == "test_response_on_single_bit_value_read_requests"
    IN  IF v1 # "ok" THEN Run(name, adu, resp, v1, <<>>)
        ELSE IF v2 # "ok" THEN Run(name, adu, resp, v2, <<>>)
        ELSE IF v3 # "ok" THEN Run(name, adu, resp, v3, <<>>)
        ELSE IF u.kind = "error" THEN Run(name, adu, resp, u.err, <<>>)
        ELSE IF u.values # expected THEN Run(name, adu, resp, "AssertionError", u.values)
        ELSE Run(name, adu, resp, "passed", u.values)

test_response_on_multi_bit_value_read_requests(adu, resp, expected) ==
    LET mbap == Slice(adu, 0, MbapLength)
        v1 == validate_response_mbap(mbap, resp)
        v2 == validate_function_code(adu, resp)
        v3 == validate_multi_bit_value_byte_count(adu, resp)
        u == unpack_multi_bit_values(resp)
        name == "test_response_on_multi_bit_value_read_requests"
    IN  IF v1 # "ok" THEN Run(name, adu, resp, v1, <<>>)
        ELSE IF v2 # "ok" THEN Run(name, adu, resp, v2, <<>>)
        ELSE IF v3 # "ok" THEN Run(name, adu, resp, v3, <<>>)
        ELSE IF u.kind = "error" THEN Run(name, adu, resp, u.err, <<>>)
        ELSE IF u.values # expected THEN Run(name, adu, resp, "AssertionError", u.values)
        ELSE Run(name, adu, resp, "passed", u.values)

\* The test without its comparison of the response with the request.
test_response_single_value_write_request_HeaderOnly(adu, resp) ==
    LET mbap == Slice(adu, 0, MbapLength)
        v1 == validate_response_mbap(mbap, resp)
        name == "test_response_single_value_write_request"
    IN  IF v1 # "ok" THEN Run(name, adu, resp, v1, <<>>)
        ELSE Run(name, adu, resp, "passed", <<>>)

test_response_single_value_write_request(adu, resp) ==
    LET mbap == Slice(adu, 0, MbapLength)
        v1 == validate_response_mbap(mbap, resp)
        name == "test_response_single_value_write_request"
    IN  IF v1 # "ok" THEN Run(name, adu, resp, v1, <<>>)
        ELSE IF resp # adu THEN Run(name, adu, resp, "AssertionError", <<>>)
        ELSE Run(name, adu, resp, "passed", <<>>)

\* The quantity read from resp[10:12] instead of resp[10:].
test_response_multi_value_write_request_Lenient(adu, resp, starting_address, quantity) ==
    LET mbap == Slice(adu, 0, MbapLength)
        v1 == validate_response_mbap(mbap, resp)
        a == UnpackOneH(Slice(resp, 8, 10))
        q == UnpackOneH(Slice(resp, 10, 12))
        name == "test_response_multi_value_write_request"
    IN  IF v1 # "ok" THEN Run(name, adu, resp, v1, <<>>)
        ELSE IF a.kind = "error" THEN Run(name, adu, resp, a.err, <<>>)
        ELSE IF a.values[1] # starting_address
        THEN Run(name, adu, resp, "AssertionError", a.values)
        ELSE IF q.kind = "error" THEN Run(name, adu, resp, q.err, a.values)
        ELSE IF q.values[1] # quantity
        THEN Run(name, adu, resp, "AssertionError", a.values \o q.values)
        ELSE Run(name, adu, resp, "passed", a.values \o q.values)

\* starting_address and quantity are the values the test expects (0 and 2
\* in the source, the request's own for any request).
test_response_multi_value_write_request(adu, resp, starting_address, quantity) ==
    LET mbap == Slice(adu, 0, MbapLength)
        v1 == validate_response_mbap(mbap, resp)
        a == UnpackOneH(Slice(resp, 8, 10))
        q == UnpackOneH(SliceFrom(resp, 10))
        name == "test_response_multi_value_write_request"
    IN  IF v1 # "ok" THEN Run(name, adu, resp, v1, <<>>)
        ELSE IF a.kind = "error" THEN Run(name, adu, resp, a.err, <<>>)
        ELSE IF a.values[1] # starting_address
        THEN Run(name, adu, resp, "AssertionError", a.values)
        ELSE IF q.kind = "error" THEN Run(name, adu, resp, q.err, a.values)
        ELSE IF q.values[1] # quantity
        THEN Run(name, adu, resp, "AssertionError", a.values \o q.values)
        ELSE Run(name, adu, resp, "passed", a.values \o q.values)

(***************************************************************************)
(* The runs of the system tests.  The mbap fixture is a header the header  *)
(* codec builds for the request; the request PDU is packed as the test     *)
(* packs it; the reply is whatever the remote unit sends.                  *)
(***************************************************************************)
TestQuantities == {1, 8, 9, MaxQuantity}

NoExchange == Run("none", <<>>, <<>>, "none", <<>>)

MbapFixture(s, pdu) == create_mbap_header(s, pdu, 258).bytes

RunSingleBitReadTest ==
    /\ exch = NoExchange
    /\ \E function_code \in {1, 2}, s \in SlaveIds, a \in Addresses, q \in TestQuantities :
          LET pdu == PackBHH(function_code, a, q).bytes
              adu == MbapFixture(s, pdu) \o pdu
          IN  \E resp \in Replies(adu) :
                  exch' = test_response_on_single_bit_value_read_requests(
                              adu, resp, ExpectedSingleBitValues(a, q))
    /\ UNCHANGED cur

RunMultiBitReadTest ==
    /\ exch = NoExchange
    /\ \E function_code \in {3, 4}, s \in SlaveIds, a \in Addresses, q \in TestQuantities :
          LET pdu == PackBHH(function_code, a, q).bytes
              adu == MbapFixture(s, pdu) \o pdu
          IN  \E resp \in Replies(adu) :
                  exch' = test_response_on_multi_bit_value_read_requests(
                              adu, resp, ExpectedMultiBitValues(a, q))
    /\ UNCHANGED cur

RunSingleValueWriteTest ==
    /\ exch = NoExchange
    /\ \E function_code \in {5, 6}, s \in SlaveIds, a \in Addresses,
          v \in {0, CoilOn, 1337} :
          LET pdu == PackBHH(function_code, a, v).bytes
              adu == MbapFixture(s, pdu) \o pdu
          IN  \E resp \in Replies(adu) :
                  exch' = test_response_single_value_write_request(adu, resp)
    /\ UNCHANGED cur

RunMultiValueWriteTest ==
    /\ exch = NoExchange
    /\ \E s \in SlaveIds, a \in Addresses :
          \E pdu \in {WriteMultipleCoilsPdu(a, vs).bytes : vs \in CoilLists}
                     \cup {WriteMultipleRegistersPdu(a, vs).bytes : vs \in RegisterLists} :
              LET adu == MbapFixture(s, pdu) \o pdu
              IN  \E resp \in Replies(adu) :
                      exch' = test_response_multi_value_write_request(
                                  adu, resp, UnpackH(pdu, 2), UnpackH(pdu, 4))
    /\ UNCHANGED cur

Init ==
    /\ cur = NoCall
    /\ exch = NoExchange

\* The client's functions, called in any order.
Next ==
    \/ CallCreateRequestAdu
    \/ CallReadCoils
    \/ CallReadDiscreteInputs
    \/ CallReadHoldingRegisters
    \/ CallReadInputRegisters
    \/ CallWriteSingleCoil
    \/ CallWriteSingleRegister
    \/ CallWriteMultipleCoils
    \/ CallWriteMultipleRegisters
    \/ CallParseResponseAdu

Spec == Init /\ [][Next]_vars

\* One run of one system test.
TestNext ==
    \/ RunSingleBitReadTest
    \/ RunMultiBitReadTest
    \/ RunSingleValueWriteTest
    \/ RunMultiValueWriteTest

TestSpec == Init /\ [][TestNext]_vars

(***************************************************************************)
(* Properties.                                                             *)
(***************************************************************************)
IsBuilt == cur.op \in Builders /\ cur.result.kind = "bytes"

IsParsed == cur.op = "parse_response_adu"

\* The request PDU a builder call hands to create_request_adu.
RequestPduOf(op, args) ==
    IF op = "create_request_adu" THEN args[2]
    ELSE IF op = "read_coils" THEN ReadRequestPdu(1, args[2], args[3]).bytes
    ELSE IF op = "read_discrete_inputs" THEN ReadRequestPdu(2, args[2], args[3]).bytes
    ELSE IF op = "read_holding_registers" THEN ReadRequestPdu(3, args[2], args[3]).bytes
    ELSE IF op = "read_input_registers" THEN ReadRequestPdu(4, args[2], args[3]).bytes
    ELSE IF op = "write_single_coil" THEN WriteSingleCoilPdu(args[2], args[3]).bytes
    ELSE IF op = "write_single_register" THEN WriteSingleRegisterPdu(args[2], args[3]).bytes
    ELSE IF op = "write_multiple_coils" THEN WriteMultipleCoilsPdu(args[2], args[3]).bytes
    ELSE WriteMultipleRegistersPdu(args[2], args[3]).bytes

\* C1: whenever a builder has drawn a transaction id, the id lies in
\* 0..65535 and the header is packed (the call returns an ADU).
C1_TransactionIdFitsField ==
    (cur.op \in Builders /\ cur.txid # <<>>) =>
        (IsU16(cur.txid[1]) /\ cur.result.kind = "bytes")

\* C2: every ADU a builder returns starts with a 7-byte header whose
\* protocol id is 0, whose length field is len(ADU) - 6, that is 1 + len(pdu),
\* and whose unit id is the slave_id given.
C2_HeaderOfRequestAdu ==
    IsBuilt =>
        LET adu == cur.result.bytes
        IN  /\ Len(adu) >= MbapLength
            /\ UnpackH(adu, 3) = 0
            /\ UnpackH(adu, 5) = Len(adu) - 6
            /\ UnpackH(adu, 5) = 1 + Len(RequestPduOf(cur.op, cur.args))
            /\ adu[7] = cur.args[1]

C2_Witness ==
    /\ IsBuilt
    /\ cur.op = "write_multiple_registers"
    /\ cur.args[1] = 255
    /\ Len(cur.args[3]) = 2
    /\ UnpackH(cur.result.bytes, 5) = 11

\* C3: splitting a built ADU at byte 7, as parse_response_adu does, gives
\* back the request PDU unchanged, and the header's length field is
\* len(pdu) + 1.
C3_SplitOfAssembled ==
    IsBuilt =>
        LET adu == cur.result.bytes
            pdu == RequestPduOf(cur.op, cur.args)
        IN  /\ SplitPdu(adu) = pdu
            /\ UnpackH(Slice(adu, 0, MbapLength), 5) = Len(pdu) + 1

C3_Witness ==
    /\ IsBuilt
    /\ cur.op = "read_coils"
    /\ SplitPdu(cur.result.bytes) = <<1, 1, 2, 0, MaxQuantity>>

\* C4: parsing a response ADU of fewer than 7 bytes fails with TruncatedADU
\* and hands nothing to the function-code decoder.
C4_TruncatedAduRejected ==
    (IsParsed /\ Len(cur.args[1]) < MbapLength) =>
        (cur.result = Error("TruncatedADU") /\ cur.decoder_input = <<>>)

\* C5: a response whose unit id differs from the unit id of the request it
\* answers is rejected with an error and never decoded into values.
C5_UnitIdMismatchRejected ==
    (IsParsed /\ Len(cur.args[1]) >= MbapLength /\ cur.args[1][7] # cur.args[2][7]) =>
        cur.result.kind = "error"

\* C6: a response whose PDU's first byte (ADU byte 7) has bit 0x80 set
\* parses to an ExceptionResponse that carries the function code without
\* that bit and the exception code byte, never to decoded values.
C6_ExceptionBitDecodes ==
    (IsParsed /\ Len(cur.args[1]) >= 8 /\ cur.args[1][8] >= 128) =>
        /\ cur.result.kind = "ExceptionResponse"
        /\ cur.result.original_code = cur.args[1][8] - 128
        /\ cur.result.exception_code = Slice(cur.args[1], 8, 9)
        /\ cur.result.values = <<>>

C6_Witness ==
    /\ IsParsed
    /\ Len(cur.args[1]) = 9
    /\ cur.args[1][8] = 129
    /\ cur.result.kind = "ExceptionResponse"
    /\ cur.result.exception_code = <<2>>

\* C7: in the single-value write exchange a response that is accepted equals
\* the request byte for byte, and a response whose PDU differs from the
\* request's PDU is not accepted.
C7_SingleWriteEcho ==
    exch.test = "test_response_single_value_write_request" =>
        /\ exch.outcome = "passed" => exch.resp = exch.req
        /\ SliceFrom(exch.resp, MbapLength) # SliceFrom(exch.req, MbapLength)
              => exch.outcome \notin {"passed", "none"}

C7_Witness ==
    /\ exch.test = "test_response_single_value_write_request"
    /\ Len(exch.resp) = Len(exch.req)
    /\ Slice(exch.resp, 0, MbapLength) = Slice(exch.req, 0, MbapLength)
    /\ exch.resp[12] # exch.req[12]
    /\ exch.outcome = "AssertionError"

IsReadTest ==
    exch.test \in {"test_response_on_single_bit_value_read_requests",
                   "test_response_on_multi_bit_value_read_requests"}

ExpectedByteCount ==
    IF exch.req[8] \in {1, 2} THEN CeilDiv8(UnpackH(exch.req, 11))
    ELSE 2 * UnpackH(exch.req, 11)

AcceptedByteCount ==
    exch.outcome = "passed" =>
        /\ Len(exch.resp) >= 9
        /\ exch.resp[9] = ExpectedByteCount
        /\ Len(SliceFrom(exch.resp, 9)) = exch.resp[9]

\* C8 as stated: the accepted response's byte_count is ceil(q/8) or 2*q and
\* exactly byte_count bytes follow it, and a read response (one that carries
\* the request's function code, so that its byte 8 is a byte_count) with any
\* other byte_count is rejected with ByteCountMismatch.
C8_AnyOtherByteCountIsByteCountMismatch ==
    IsReadTest =>
        /\ AcceptedByteCount
        /\ ( /\ Len(exch.resp) >= 9
             /\ exch.resp[8] = exch.req[8]
             /\ exch.resp[9] # ExpectedByteCount )
              => exch.outcome = "ByteCountMismatch"

\* C8 as amended: the accepted response's byte_count is ceil(q/8) or 2*q and
\* exactly byte_count bytes follow it, and a response that passes the header
\* check and carries the request's function code with any other byte_count
\* is rejected with ByteCountMismatch.
C8_ByteCountOfReadResponse ==
    IsReadTest =>
        /\ AcceptedByteCount
        /\ ( /\ validate_response_mbap(Slice(exch.req, 0, MbapLength), exch.resp) = "ok"
             /\ Len(exch.resp) >= 9
             /\ exch.resp[8] = exch.req[8]
             /\ exch.resp[9] # ExpectedByteCount )
              => exch.outcome = "ByteCountMismatch"

C8_Witness ==
    /\ IsReadTest
    /\ exch.req[8] = 1
    /\ UnpackH(exch.req, 11) = 9
    /\ Len(exch.resp) >= 9
    /\ exch.resp[9] = 3
    /\ Len(SliceFrom(exch.resp, 9)) = 3
    /\ exch.outcome = "ByteCountMismatch"

\* C9: in the multi-value write exchange a response that is accepted carries
\* the request's starting address and quantity and nothing after them,
\* whatever values were written, and a response whose starting address or
\* quantity differs is not accepted.
C9_MultiWriteEcho ==
    exch.test = "test_response_multi_value_write_request" =>
        /\ exch.outcome = "passed" =>
              /\ Len(exch.resp) = 12
              /\ UnpackH(exch.resp, 9) = UnpackH(exch.req, 9)
              /\ UnpackH(exch.resp, 11) = UnpackH(exch.req, 11)
        /\ ( /\ Len(exch.resp) >= 12
             /\ \/ UnpackH(exch.resp, 9) # UnpackH(exch.req, 9)
                \/ UnpackH(exch.resp, 11) # UnpackH(exch.req, 11) )
              => exch.outcome \notin {"passed", "none"}

C9_Witness ==
    /\ exch.test = "test_response_multi_value_write_request"
    /\ exch.req[8] = 16
    /\ SliceFrom(exch.req, 13) = <<5, 57, 0, 15>>
    /\ exch.resp = Slice(exch.req, 0, 5) \o <<6>> \o Slice(exch.req, 6, 12)
    /\ exch.outcome = "passed"

SameButTransactionId(r1, r2) ==
    /\ r1.kind = r2.kind
    /\ r1.err = r2.err
    /\ SliceFrom(r1.bytes, 2) = SliceFrom(r2.bytes, 2)
    /\ r1.values = r2.values
    /\ r1.original_code = r2.original_code
    /\ r1.exception_code = r2.exception_code

\* C10: a call's result is determined by its own arguments, except for the
\* two transaction-id bytes of a built ADU: a call that follows a call of
\* the same function with the same arguments has the same result from byte
\* 2 on.
C10_ResultDeterminedByArguments ==
    [][(cur.op # "none" /\ cur'.op = cur.op /\ cur'.args = cur.args)
          => SameButTransactionId(cur.result, cur'.result)]_vars

====
